---------------------------- MODULE Spec2Model ----------------------------
(***************************************************************************)
(* A model of consumer.go: the multi-cluster partition-consumer bootstrap  *)
(* (setupClusters, setupPartitionConsumers, cluster.close, closeAll), the  *)
(* offset resolver (resolveOffset), the fan-in (demuxMessages) and the     *)
(* forwarding loop (sendMessagesToWsBlocking).                             *)
(*                                                                         *)
(* Five state machines share the module, each with its own specifications: *)
(*   SpecOffset    one call of resolveOffset on an arbitrary specifier     *)
(*   SpecRegistry  the registry loop of setupPartitionConsumers            *)
(*   Spec          one call of setupPartitionConsumers, goroutine by       *)
(*                 goroutine                                               *)
(*   SpecClose     closeAll alone, from the states it is entered in        *)
(*   SpecDemux     demuxMessages' workers and sendMessagesToWsBlocking     *)
(*                 over input streams that stay open; SpecDemuxClose lets  *)
(*                 the inputs be closed; FairDemux and FairWorkers are     *)
(*                 SpecDemux with the scheduler's fairness                 *)
(***************************************************************************)
EXTENDS Integers, Sequences, FiniteSets, TLC

VARIABLES
    \* ---- resolveOffset (one call)
    configOffset,   \* the specifier, a string as a sequence of characters
    roPc,           \* "call" before the call, "returned" after it
    roOldest,       \* what GetOffset(OffsetOldest) answered, NoAnswer if not asked
    roNewest,       \* what GetOffset(OffsetNewest) answered, NoAnswer if not asked
    roRet,          \* the call's result [offset, err, queries]
    \* ---- the registry loop
    regConsumers,   \* conf.consumers, the broker list of each spec
    regIdx,         \* position of the range loop of lines 116-121
    regClusters,    \* clusters: joined key -> the cluster's brokers
    \* ---- demuxMessages and sendMessagesToWsBlocking
    produced,       \* the finite sequence of messages each input stream produces
    p,              \* per input stream, the messages not yet received from it
    pClosed,        \* the input streams that have been closed
    dpc,            \* per worker: "select" (line 265), "send" (line 267), "exited"
    msg,            \* per worker, the message it holds at line 267
    qClosed,        \* whether the cancellation channel q has fired
    spc,            \* the forwarding loop: "select" (299), "send" (310), "returned"
    cMsg,           \* the message the loop took from c and is sending
    sends,          \* the sink's Send calls so far, each [msg, err]
    \* ---- setupPartitionConsumers (one call)
    consumers,      \* conf.consumers: each [brokers, partition, offset]
    pc,             \* where the calling goroutine is
    clusters,       \* key -> [brokers, client, consumer, partitionConsumers]
    errors,         \* the shared error slice
    cw,             \* setupClusters' goroutines, by cluster key
    pw,             \* the spec-workers, by position in conf.consumers
    pcLHeld,        \* the pcL mutex values that are locked
    partitionConsumerChans, \* the shared list of message streams
    opened,         \* every partition-consumer ConsumePartition returned
    calls,          \* the calls the spec-workers made: <<operation, worker, partition>>
    toClose,        \* closeAll: the clusters its range loop has not visited
    closing,        \* closeAll: <<key>> of the cluster being closed, or <<>>
    cstage,         \* cluster.close: "pcs", then "client" after the consumer
    ci,             \* cluster.close: position in c.partitionConsumers
    closeLog,       \* every Close call made, in order: [kind, cluster, id, err]
    ret             \* what setupPartitionConsumers returned

offsetVars   == <<configOffset, roPc, roOldest, roNewest, roRet>>
registryVars == <<regConsumers, regIdx, regClusters>>
demuxVars    == <<produced, p, pClosed, dpc, msg, qClosed, spc, cMsg, sends>>
bootVars     == <<consumers, pc, clusters, errors, cw, pw, pcLHeld,
                 partitionConsumerChans, opened, calls, toClose, closing, cstage,
                 ci, closeLog, ret>>
vars == <<offsetVars, registryVars, demuxVars, bootVars>>

(***************************************************************************)
(* Bounds of the model.                                                    *)
(***************************************************************************)
\* longest specifier string enumerated
MaxLen == 4
\* width of the integer type that stands for int64 (strconv.ParseInt's
\* bitSize, and the width of the offset arithmetic), scaled down so that
\* literals within MaxLen characters fall on both sides of the range
IntBits == 8
\* most specs in one configuration of the registry loop
MaxRegSpecs == 3
\* most specs in one configuration of setupPartitionConsumers
MaxSpecs == 2
\* most partitions consumer.Partitions answers with
MaxPartitions == 2
\* most Close calls that return an error during one closeAll
MaxCloseErrors == 2
\* input streams handed to demuxMessages
NumStreams == 2
\* most messages one input stream produces
MaxMsgs == 2

(***************************************************************************)
(* Strings.  A specifier is a sequence of one-character strings, so that   *)
(* parsing is computed character by character.                             *)
(***************************************************************************)
Digits == {"0", "1", "2", "5", "9"}
Alphabet == Digits \cup {"-", "+", "a"}

StrOldest == <<"o", "l", "d", "e", "s", "t">>
StrNewest == <<"n", "e", "w", "e", "s", "t">>
StrAbc    == <<"a", "b", "c">>

StringsUpTo(n) == UNION {[1..k -> Alphabet] : k \in 0..n}
Specifiers == StringsUpTo(MaxLen) \cup {StrOldest, StrNewest, StrAbc}

\* sarama.OffsetNewest and sarama.OffsetOldest
OffsetNewest == -1
OffsetOldest == -2
\* the literal of line 236
SentinelFloor == -2

RECURSIVE Pow2(_)
Pow2(n) == IF n = 0 THEN 1 ELSE 2 * Pow2(n - 1)

MinInt == -Pow2(IntBits - 1)
MaxInt == Pow2(IntBits - 1) - 1

\* two's-complement wrap-around of the signed integer type
WrapInt(x) == ((x - MinInt) % Pow2(IntBits)) + MinInt

DigitVal(c) ==
    CASE c = "0" -> 0 [] c = "1" -> 1 [] c = "2" -> 2 [] c = "5" -> 5 [] c = "9" -> 9

RECURSIVE DigitsValue(_, _)
DigitsValue(s, acc) ==
    IF s = <<>> THEN acc ELSE DigitsValue(Tail(s), 10 * acc + DigitVal(Head(s)))

\* strconv.ParseUint(s, 10, bitSize): digits only, at least one, no overflow
ParseUint(s) ==
    IF s = <<>> THEN [n |-> 0, err |-> "syntax"]
    ELSE IF \E i \in 1..Len(s) : s[i] \notin Digits THEN [n |-> 0, err |-> "syntax"]
    ELSE IF DigitsValue(s, 0) > Pow2(IntBits) - 1
         THEN [n |-> Pow2(IntBits) - 1, err |-> "range"]
    ELSE [n |-> DigitsValue(s, 0), err |-> "nil"]

\* strconv.ParseInt(s, 10, bitSize): optional sign, then ParseUint, then the
\* signed range check
ParseInt(s) ==
    IF s = <<>> THEN [n |-> 0, err |-> "syntax"]
    ELSE LET neg  == Head(s) = "-"
             body == IF Head(s) \in {"+", "-"} THEN Tail(s) ELSE s
             un   == ParseUint(body)
         IN  IF un.err # "nil" THEN [n |-> 0, err |-> un.err]
             ELSE IF ~neg /\ un.n >= Pow2(IntBits - 1)
                  THEN [n |-> MaxInt, err |-> "range"]
             ELSE IF neg /\ un.n > Pow2(IntBits - 1)
                  THEN [n |-> MinInt, err |-> "range"]
             ELSE [n |-> IF neg THEN -un.n ELSE un.n, err |-> "nil"]

(***************************************************************************)
(* resolveOffset.  The broker is an input: oldestAns and newestAns are     *)
(* what client.GetOffset would answer to each of the two queries, a record *)
(* [val, err].  The result carries the offset, the error ("nil",           *)
(* "invalid" for the invalid-specifier error, "broker" for a propagated    *)
(* query error) and the number of GetOffset calls issued.                  *)
(***************************************************************************)
BrokerOffsets == {0, 10, 60, 100}
BrokerAnswers == [val : BrokerOffsets, err : {FALSE}] \cup {[val |-> -1, err |-> TRUE]}
NoAnswer == [val |-> 0, err |-> FALSE, asked |-> FALSE]
Asked(a) == [val |-> a.val, err |-> a.err, asked |-> TRUE]

LookbackMutNoClamp(numericOffset, oldestAns, newestAns) ==
    IF oldestAns.err THEN [offset |-> 0, err |-> "broker", queries |-> 1]
    ELSE IF newestAns.err THEN [offset |-> 0, err |-> "broker", queries |-> 2]
    ELSE [offset |-> WrapInt(newestAns.val + numericOffset), err |-> "nil", queries |-> 2]

LookbackMutQueryBoth(numericOffset, oldestAns, newestAns) ==
    IF oldestAns.err \/ newestAns.err THEN [offset |-> 0, err |-> "broker", queries |-> 2]
    ELSE IF WrapInt(newestAns.val + numericOffset) < oldestAns.val
         THEN [offset |-> oldestAns.val, err |-> "nil", queries |-> 2]
    ELSE [offset |-> WrapInt(newestAns.val + numericOffset), err |-> "nil", queries |-> 2]

\* lines 240-254: the lookback branch
Lookback(numericOffset, oldestAns, newestAns) ==
    IF oldestAns.err THEN [offset |-> 0, err |-> "broker", queries |-> 1]
    ELSE IF newestAns.err THEN [offset |-> 0, err |-> "broker", queries |-> 2]
    ELSE IF WrapInt(newestAns.val + numericOffset) < oldestAns.val
         THEN [offset |-> oldestAns.val, err |-> "nil", queries |-> 2]
    ELSE [offset |-> WrapInt(newestAns.val + numericOffset), err |-> "nil", queries |-> 2]

resolveOffsetMutFloor(cfgOffset, oldestAns, newestAns) ==
    IF cfgOffset = StrOldest THEN [offset |-> OffsetOldest, err |-> "nil", queries |-> 0]
    ELSE IF cfgOffset = StrNewest THEN [offset |-> OffsetNewest, err |-> "nil", queries |-> 0]
    ELSE IF ParseInt(cfgOffset).err = "nil"
         THEN IF ParseInt(cfgOffset).n > SentinelFloor
              THEN [offset |-> ParseInt(cfgOffset).n, err |-> "nil", queries |-> 0]
              ELSE Lookback(ParseInt(cfgOffset).n, oldestAns, newestAns)
    ELSE [offset |-> 0, err |-> "invalid", queries |-> 0]

resolveOffsetMutLenient(cfgOffset, oldestAns, newestAns) ==
    IF cfgOffset = StrOldest THEN [offset |-> OffsetOldest, err |-> "nil", queries |-> 0]
    ELSE IF cfgOffset = StrNewest THEN [offset |-> OffsetNewest, err |-> "nil", queries |-> 0]
    ELSE IF ParseInt(cfgOffset).err = "nil"
         THEN IF ParseInt(cfgOffset).n >= SentinelFloor
              THEN [offset |-> ParseInt(cfgOffset).n, err |-> "nil", queries |-> 0]
              ELSE Lookback(ParseInt(cfgOffset).n, oldestAns, newestAns)
    ELSE [offset |-> 0, err |-> "nil", queries |-> 0]

\* lines 230-258
resolveOffset(cfgOffset, oldestAns, newestAns) ==
    IF cfgOffset = StrOldest THEN [offset |-> OffsetOldest, err |-> "nil", queries |-> 0]
    ELSE IF cfgOffset = StrNewest THEN [offset |-> OffsetNewest, err |-> "nil", queries |-> 0]
    ELSE IF ParseInt(cfgOffset).err = "nil"
         THEN IF ParseInt(cfgOffset).n >= SentinelFloor
              THEN [offset |-> ParseInt(cfgOffset).n, err |-> "nil", queries |-> 0]
              ELSE Lookback(ParseInt(cfgOffset).n, oldestAns, newestAns)
    ELSE [offset |-> 0, err |-> "invalid", queries |-> 0]

NoRet == [offset |-> 0, err |-> "nil", queries |-> 0]

OffsetIdle ==
    /\ configOffset = <<>>
    /\ roPc = "idle"
    /\ roOldest = NoAnswer
    /\ roNewest = NoAnswer
    /\ roRet = NoRet

\* one call of resolveOffset; the broker's answers are recorded only for the
\* queries the call issued
ResolveCall ==
    /\ roPc = "call"
    /\ \E oldestAns \in BrokerAnswers, newestAns \in BrokerAnswers :
         LET r == resolveOffset(configOffset, oldestAns, newestAns)
         IN  /\ roRet' = r
             /\ roOldest' = IF r.queries >= 1 THEN Asked(oldestAns) ELSE NoAnswer
             /\ roNewest' = IF r.queries >= 2 THEN Asked(newestAns) ELSE NoAnswer
    /\ roPc' = "returned"
    /\ UNCHANGED <<configOffset, registryVars, demuxVars, bootVars>>

(***************************************************************************)
(* The registry loop of setupPartitionConsumers (lines 115-121).           *)
(***************************************************************************)
RECURSIVE Join(_, _)
\* strings.Join(elems, sep)
Join(elems, sep) ==
    IF elems = <<>> THEN ""
    ELSE IF Len(elems) = 1 THEN elems[1]
    ELSE elems[1] \o sep \o Join(Tail(elems), sep)

BrokerKeyMutFirst(brokers) == IF brokers = <<>> THEN "" ELSE brokers[1]

\* line 117 (and 143): the registry key of a broker list
BrokerKey(brokers) == Join(brokers, ",")

EmptyMap == [k \in {} |-> <<>>]

RegistryIdle ==
    /\ regConsumers = <<>>
    /\ regIdx = 0
    /\ regClusters = EmptyMap

\* one iteration of the range loop of lines 116-121
RegistryStep ==
    /\ regIdx >= 1
    /\ regIdx <= Len(regConsumers)
    /\ LET b == BrokerKey(regConsumers[regIdx])
       IN  regClusters' = IF b \in DOMAIN regClusters THEN regClusters
                          ELSE regClusters @@ (b :> regConsumers[regIdx])
    /\ regIdx' = regIdx + 1
    /\ UNCHANGED <<regConsumers, offsetVars, demuxVars, bootVars>>

\* broker lists a configuration may name: plain addresses, two orders of the
\* same addresses, an address holding the separator, the empty list and the
\* list of one empty address
BrokerLists ==
    {<<"a">>, <<"b">>, <<"a", "b">>, <<"b", "a">>, <<"a,b">>, <<>>, <<"">>}

(***************************************************************************)
(* demuxMessages (lines 260-275) and sendMessagesToWsBlocking (297-320).   *)
(* The merged channel c is unbuffered: a worker's send at line 267 and the *)
(* loop's receive at line 300 are one step.  A message is <<stream,        *)
(* offset>>.                                                               *)
(***************************************************************************)
Streams == 1..NumStreams
NoMsg == <<0, 0>>
\* the nil *sarama.ConsumerMessage that a receive from a closed channel yields
NilMsg == <<0, 1>>

DemuxIdle ==
    /\ produced = <<>>
    /\ p = <<>>
    /\ pClosed = {}
    /\ dpc = <<>>
    /\ msg = <<>>
    /\ qClosed = FALSE
    /\ spc = "idle"
    /\ cMsg = NoMsg
    /\ sends = <<>>

(***************************************************************************)
(* setupPartitionConsumers (lines 114-203) with setupClusters (81-112),    *)
(* cluster.close (31-56) and closeAll (58-64).  A handle is "unset" (nil)  *)
(* or "open".  A partition-consumer is named <<worker, partition>>.  A     *)
(* method call on an unset handle is a nil dereference: the process        *)
(* panics, pc = "panic", and nothing runs any more.                        *)
(***************************************************************************)
\* the partition value that asks for every partition (line 148)
AllPartitions == -1
NoPC == <<0, 0>>
NoReturn == [ok |-> FALSE, streams |-> <<>>, clusters |-> {}]

BootIdle ==
    /\ consumers = <<>>
    /\ pc = "idle"
    /\ clusters = EmptyMap
    /\ errors = <<>>
    /\ cw = EmptyMap
    /\ pw = <<>>
    /\ pcLHeld = {}
    /\ partitionConsumerChans = <<>>
    /\ opened = {}
    /\ calls = {}
    /\ toClose = {}
    /\ closing = <<>>
    /\ cstage = "pcs"
    /\ ci = 0
    /\ closeLog = <<>>
    /\ ret = NoReturn

Err(kind, k, w, part) == [kind |-> kind, cluster |-> k, worker |-> w, part |-> part]

\* lines 143-144: the cluster a spec-worker looks up
ClusterOf(w) == BrokerKey(consumers[w].brokers)

\* line 123 entering setupClusters, lines 82-108: one goroutine per cluster
StartSetupClusters ==
    /\ pc = "registry"
    /\ regIdx > Len(regConsumers)
    /\ clusters' = [k \in DOMAIN regClusters |->
                      [brokers |-> regClusters[k], client |-> "unset",
                       consumer |-> "unset", partitionConsumers |-> <<>>]]
    /\ cw' = [k \in DOMAIN regClusters |->
                [pc |-> "newClient", client |-> "unset", consumer |-> "unset"]]
    /\ pc' = "setupClusters"
    /\ UNCHANGED <<consumers, errors, pw, pcLHeld, partitionConsumerChans, opened,
                   calls, toClose, closing, cstage, ci, closeLog, ret,
                   offsetVars, registryVars, demuxVars>>

\* lines 92-97: utils.newClient, its error appended under errL
NewClient(k) ==
    /\ pc = "setupClusters"
    /\ cw[k].pc = "newClient"
    /\ \E ok \in BOOLEAN :
         /\ cw' = [cw EXCEPT ![k] = [pc |-> "newConsumer",
                                     client |-> IF ok THEN "open" ELSE "unset",
                                     consumer |-> "unset"]]
         /\ errors' = IF ok THEN errors ELSE Append(errors, Err("client", k, 0, 0))
    /\ UNCHANGED <<consumers, pc, clusters, pw, pcLHeld, partitionConsumerChans,
                   opened, calls, toClose, closing, cstage, ci, closeLog, ret,
                   offsetVars, registryVars, demuxVars>>

\* what utils.newConsumerFromClient can do with the client it is given: from
\* an unset client it fails, by an error or by dereferencing it
ConsumerOutcomes(client) == IF client = "open" THEN {"ok", "err"} ELSE {"err", "panic"}

\* lines 98-103: utils.newConsumerFromClient(client), called whatever
\* newClient returned; its error appended under errL
NewConsumer(k) ==
    /\ pc = "setupClusters"
    /\ cw[k].pc = "newConsumer"
    /\ \E outcome \in ConsumerOutcomes(cw[k].client) :
         IF outcome = "panic"
         THEN /\ pc' = "panic"
              /\ UNCHANGED <<cw, errors>>
         ELSE /\ cw' = [cw EXCEPT ![k].pc = "assign",
                                  ![k].consumer = IF outcome = "ok" THEN "open" ELSE "unset"]
              /\ errors' = IF outcome = "ok" THEN errors
                           ELSE Append(errors, Err("consumer", k, 0, 0))
              /\ pc' = pc
    /\ UNCHANGED <<consumers, clusters, pw, pcLHeld, partitionConsumerChans,
                   opened, calls, toClose, closing, cstage, ci, closeLog, ret,
                   offsetVars, registryVars, demuxVars>>

\* lines 104-105, and the goroutine's wg.Done
AssignHandles(k) ==
    /\ pc = "setupClusters"
    /\ cw[k].pc = "assign"
    /\ clusters' = [clusters EXCEPT ![k].client = cw[k].client,
                                    ![k].consumer = cw[k].consumer]
    /\ cw' = [cw EXCEPT ![k].pc = "done"]
    /\ UNCHANGED <<consumers, pc, errors, pw, pcLHeld, partitionConsumerChans,
                   opened, calls, toClose, closing, cstage, ci, closeLog, ret,
                   offsetVars, registryVars, demuxVars>>

NewWorker == [pc |-> "start", partitions |-> <<>>, idx |-> 0, offset |-> 0,
              partitionConsumer |-> NoPC, slice |-> <<>>]
\* a goroutine that returned (and called wg.Done): its locals are gone
DoneWorker == [pc |-> "done", partitions |-> <<>>, idx |-> 0, offset |-> 0,
               partitionConsumer |-> NoPC, slice |-> <<>>]

\* line 109 wg.Wait, lines 111 and 123-132: the decision after the join, and
\* lines 134-188: one goroutine per spec
ClustersJoined ==
    /\ pc = "setupClusters"
    /\ \A k \in DOMAIN cw : cw[k].pc = "done"
    /\ IF Len(errors) > 0
       THEN /\ pc' = "closeAll"
            /\ toClose' = DOMAIN clusters
            /\ pw' = pw
       ELSE /\ pc' = "partitions"
            /\ pw' = [w \in 1..Len(consumers) |-> NewWorker]
            /\ toClose' = toClose
    /\ UNCHANGED <<consumers, clusters, errors, cw, pcLHeld, partitionConsumerChans,
                   opened, calls, closing, cstage, ci, closeLog, ret,
                   offsetVars, registryVars, demuxVars>>

\* what consumer.Partitions can answer
PartitionAnswers ==
    {[parts |-> [j \in 1..n |-> j - 1], err |-> FALSE] : n \in 0..MaxPartitions}
        \cup {[parts |-> <<>>, err |-> TRUE]}

CurrentPartition(w) == pw[w].partitions[pw[w].idx]

\* lines 142-159: the worker's copies of the cluster's fields and its list of
\* target partitions
FetchPartitions(w) ==
    /\ pc = "partitions"
    /\ pw[w].pc = "start"
    /\ \E ans \in (IF consumers[w].partition = AllPartitions THEN PartitionAnswers
                   ELSE {[parts |-> <<consumers[w].partition>>, err |-> FALSE]}) :
         IF ans.err
         THEN /\ errors' = Append(errors, Err("partitions", ClusterOf(w), w, 0))
              /\ pw' = [pw EXCEPT ![w] = DoneWorker]
         ELSE /\ errors' = errors
              /\ pw' = [pw EXCEPT ![w] = IF ans.parts = <<>> THEN DoneWorker
                                             ELSE [NewWorker EXCEPT !.partitions = ans.parts,
                                                                    !.idx = 1,
                                                                    !.pc = "resolve"]]
    /\ UNCHANGED <<consumers, pc, clusters, cw, pcLHeld, partitionConsumerChans,
                   opened, calls, toClose, closing, cstage, ci, closeLog, ret,
                   offsetVars, registryVars, demuxVars>>

\* lines 162-168: resolveOffset for the current partition; on its error the
\* worker returns
ResolvePartitionOffset(w) ==
    /\ pc = "partitions"
    /\ pw[w].pc = "resolve"
    /\ \E oldestAns \in BrokerAnswers, newestAns \in BrokerAnswers :
         LET r == resolveOffset(consumers[w].offset, oldestAns, newestAns)
         IN  IF r.err # "nil"
             THEN /\ errors' = Append(errors, Err("offset", ClusterOf(w), w, CurrentPartition(w)))
                  /\ pw' = [pw EXCEPT ![w] = DoneWorker]
             ELSE /\ errors' = errors
                  /\ pw' = [pw EXCEPT ![w].offset = r.offset, ![w].pc = "consume"]
    /\ calls' = calls \cup {<<"resolveOffset", w, CurrentPartition(w)>>}
    /\ UNCHANGED <<consumers, pc, clusters, cw, pcLHeld, partitionConsumerChans,
                   opened, toClose, closing, cstage, ci, closeLog, ret,
                   offsetVars, registryVars, demuxVars>>

\* lines 170-176: consumer.ConsumePartition; on its error the worker returns
ConsumePartition(w) ==
    /\ pc = "partitions"
    /\ pw[w].pc = "consume"
    /\ \E ok \in BOOLEAN :
         IF ok
         THEN /\ pw' = [pw EXCEPT ![w].partitionConsumer = <<w, CurrentPartition(w)>>,
                                  ![w].pc = "lock"]
              /\ opened' = opened \cup {<<w, CurrentPartition(w)>>}
              /\ errors' = errors
         ELSE /\ pw' = [pw EXCEPT ![w] = DoneWorker]
              /\ opened' = opened
              /\ errors' = Append(errors, Err("consume", ClusterOf(w), w, CurrentPartition(w)))
    /\ calls' = calls \cup {<<"ConsumePartition", w, CurrentPartition(w)>>}
    /\ UNCHANGED <<consumers, pc, clusters, cw, pcLHeld, partitionConsumerChans,
                   toClose, closing, cstage, ci, closeLog, ret,
                   offsetVars, registryVars, demuxVars>>

\* line 145: pcL := cluster.pcL copies the mutex value, so the mutex a worker
\* locks at line 178 is its own
PcLockOf(w) == <<"copy", w>>

\* line 178 pcL.Lock, and line 179's read of cluster.partitionConsumers
RegisterLockRead(w) ==
    /\ pc = "partitions"
    /\ pw[w].pc = "lock"
    /\ PcLockOf(w) \notin pcLHeld
    /\ pcLHeld' = pcLHeld \cup {PcLockOf(w)}
    /\ pw' = [pw EXCEPT ![w].slice = clusters[ClusterOf(w)].partitionConsumers,
                        ![w].pc = "append"]
    /\ UNCHANGED <<consumers, pc, clusters, errors, cw, partitionConsumerChans,
                   opened, calls, toClose, closing, cstage, ci, closeLog, ret,
                   offsetVars, registryVars, demuxVars>>

\* line 179's write of the appended slice, and line 180 pcL.Unlock
RegisterWriteUnlock(w) ==
    /\ pc = "partitions"
    /\ pw[w].pc = "append"
    /\ clusters' = [clusters EXCEPT ![ClusterOf(w)].partitionConsumers =
                        Append(pw[w].slice, pw[w].partitionConsumer)]
    /\ pcLHeld' = pcLHeld \ {PcLockOf(w)}
    /\ pw' = [pw EXCEPT ![w].slice = <<>>, ![w].pc = "collect"]
    /\ UNCHANGED <<consumers, pc, errors, cw, partitionConsumerChans,
                   opened, calls, toClose, closing, cstage, ci, closeLog, ret,
                   offsetVars, registryVars, demuxVars>>

\* lines 181-184: the stream appended under pccL, then the next partition or
\* the goroutine's end
CollectStream(w) ==
    /\ pc = "partitions"
    /\ pw[w].pc = "collect"
    /\ partitionConsumerChans' = Append(partitionConsumerChans, pw[w].partitionConsumer)
    /\ pw' = [pw EXCEPT ![w] = IF pw[w].idx + 1 > Len(pw[w].partitions)
                                 THEN DoneWorker
                                 ELSE [NewWorker EXCEPT !.partitions = pw[w].partitions,
                                                        !.idx = pw[w].idx + 1,
                                                        !.pc = "resolve"]]
    /\ UNCHANGED <<consumers, pc, clusters, errors, cw, pcLHeld,
                   opened, calls, toClose, closing, cstage, ci, closeLog, ret,
                   offsetVars, registryVars, demuxVars>>

\* line 190 wg.Wait and lines 192-202: the decision after the join
PartitionsJoined ==
    /\ pc = "partitions"
    /\ \A w \in 1..Len(pw) : pw[w].pc = "done"
    /\ IF Len(errors) > 0
       THEN /\ pc' = "closeAll"
            /\ toClose' = DOMAIN clusters
            /\ ret' = ret
       ELSE /\ pc' = "returned"
            /\ toClose' = toClose
            /\ ret' = [ok |-> TRUE, streams |-> partitionConsumerChans,
                       clusters |-> DOMAIN clusters]
    /\ UNCHANGED <<consumers, clusters, errors, cw, pw, pcLHeld, partitionConsumerChans,
                   opened, calls, closing, cstage, ci, closeLog,
                   offsetVars, registryVars, demuxVars>>

CloseEntry(kind, k, id, err) == [kind |-> kind, cluster |-> k, id |-> id, err |-> err]
CloseErrors == Cardinality({j \in 1..Len(closeLog) : closeLog[j].err})
\* what a Close call can return: nil, or an error
CloseOutcomes == IF CloseErrors < MaxCloseErrors THEN BOOLEAN ELSE {FALSE}

\* line 60: the range loop of closeAll takes a cluster it has not visited, in
\* the map's order, which is any order; line 61 enters its close
CloseAllNext ==
    /\ pc = "closeAll"
    /\ closing = <<>>
    /\ \E k \in toClose :
         /\ closing' = <<k>>
         /\ toClose' = toClose \ {k}
    /\ cstage' = "pcs"
    /\ ci' = 1
    /\ UNCHANGED <<consumers, pc, clusters, errors, cw, pw, pcLHeld,
                   partitionConsumerChans, opened, calls, closeLog, ret,
                   offsetVars, registryVars, demuxVars>>

ClosePartitionConsumerMutAbort ==
    /\ pc = "closeAll"
    /\ closing # <<>>
    /\ cstage = "pcs"
    /\ ci <= Len(clusters[closing[1]].partitionConsumers)
    /\ \E err \in CloseOutcomes :
         /\ closeLog' = Append(closeLog,
               CloseEntry("pc", closing[1], clusters[closing[1]].partitionConsumers[ci], err))
         /\ IF err THEN closing' = <<>> /\ ci' = 0
                   ELSE closing' = closing /\ ci' = ci + 1
    /\ UNCHANGED <<consumers, pc, clusters, errors, cw, pw, pcLHeld,
                   partitionConsumerChans, opened, calls, toClose, cstage, ret,
                   offsetVars, registryVars, demuxVars>>

\* lines 35-39: the next partition-consumer's Close; its error is logged
ClosePartitionConsumer ==
    /\ pc = "closeAll"
    /\ closing # <<>>
    /\ cstage = "pcs"
    /\ ci <= Len(clusters[closing[1]].partitionConsumers)
    /\ \E err \in CloseOutcomes :
         closeLog' = Append(closeLog,
               CloseEntry("pc", closing[1], clusters[closing[1]].partitionConsumers[ci], err))
    /\ ci' = ci + 1
    /\ UNCHANGED <<consumers, pc, clusters, errors, cw, pw, pcLHeld,
                   partitionConsumerChans, opened, calls, toClose, closing, cstage, ret,
                   offsetVars, registryVars, demuxVars>>

CloseConsumerMutEarly ==
    /\ pc = "closeAll"
    /\ closing # <<>>
    /\ cstage = "pcs"
    /\ IF clusters[closing[1]].consumer = "unset"
       THEN /\ pc' = "panic"
            /\ UNCHANGED <<closeLog, cstage>>
       ELSE /\ \E err \in CloseOutcomes :
                 closeLog' = Append(closeLog, CloseEntry("consumer", closing[1], NoPC, err))
            /\ cstage' = "client"
            /\ pc' = pc
    /\ UNCHANGED <<consumers, clusters, errors, cw, pw, pcLHeld,
                   partitionConsumerChans, opened, calls, toClose, closing, ci, ret,
                   offsetVars, registryVars, demuxVars>>

\* lines 41-46: c.consumer.Close(); on an unset consumer the call panics
CloseConsumer ==
    /\ pc = "closeAll"
    /\ closing # <<>>
    /\ cstage = "pcs"
    /\ ci > Len(clusters[closing[1]].partitionConsumers)
    /\ IF clusters[closing[1]].consumer = "unset"
       THEN /\ pc' = "panic"
            /\ UNCHANGED <<closeLog, cstage>>
       ELSE /\ \E err \in CloseOutcomes :
                 closeLog' = Append(closeLog, CloseEntry("consumer", closing[1], NoPC, err))
            /\ cstage' = "client"
            /\ pc' = pc
    /\ UNCHANGED <<consumers, clusters, errors, cw, pw, pcLHeld,
                   partitionConsumerChans, opened, calls, toClose, closing, ci, ret,
                   offsetVars, registryVars, demuxVars>>

\* lines 48-55: c.client.Close(); on an unset client the call panics
CloseClient ==
    /\ pc = "closeAll"
    /\ closing # <<>>
    /\ cstage = "client"
    /\ IF clusters[closing[1]].client = "unset"
       THEN /\ pc' = "panic"
            /\ UNCHANGED <<closeLog, closing, cstage, ci>>
       ELSE /\ \E err \in CloseOutcomes :
                 closeLog' = Append(closeLog, CloseEntry("client", closing[1], NoPC, err))
            /\ closing' = <<>>
            /\ cstage' = "pcs"
            /\ ci' = 0
            /\ pc' = pc
    /\ UNCHANGED <<consumers, clusters, errors, cw, pw, pcLHeld,
                   partitionConsumerChans, opened, calls, toClose, ret,
                   offsetVars, registryVars, demuxVars>>

\* line 63 and lines 131, 198: closeAll is through, return nil, nil, false
CloseAllReturn ==
    /\ pc = "closeAll"
    /\ closing = <<>>
    /\ toClose = {}
    /\ pc' = "returned"
    /\ ret' = [ok |-> FALSE, streams |-> <<>>, clusters |-> {}]
    /\ UNCHANGED <<consumers, clusters, errors, cw, pw, pcLHeld,
                   partitionConsumerChans, opened, calls, toClose, closing, cstage,
                   ci, closeLog, offsetVars, registryVars, demuxVars>>

\* the specs a configuration is made of
BootBrokerLists == {<<"a">>, <<"b">>}
BootPartitions == {AllPartitions, 0}
BootOffsets == {StrNewest, <<"-", "5">>}
ConsumerSpecs ==
    [brokers : BootBrokerLists, partition : BootPartitions, offset : BootOffsets]

Init ==
    /\ consumers \in UNION {[1..n -> ConsumerSpecs] : n \in 0..MaxSpecs}
    /\ pc = "registry"
    /\ regConsumers = [i \in 1..Len(consumers) |-> consumers[i].brokers]
    /\ regIdx = 1
    /\ regClusters = EmptyMap
    /\ clusters = EmptyMap
    /\ errors = <<>>
    /\ cw = EmptyMap
    /\ pw = <<>>
    /\ pcLHeld = {}
    /\ partitionConsumerChans = <<>>
    /\ opened = {}
    /\ calls = {}
    /\ toClose = {}
    /\ closing = <<>>
    /\ cstage = "pcs"
    /\ ci = 0
    /\ closeLog = <<>>
    /\ ret = NoReturn
    /\ OffsetIdle
    /\ DemuxIdle

Next ==
    \/ RegistryStep
    \/ StartSetupClusters
    \/ \E k \in DOMAIN cw : NewClient(k)
    \/ \E k \in DOMAIN cw : NewConsumer(k)
    \/ \E k \in DOMAIN cw : AssignHandles(k)
    \/ ClustersJoined
    \/ \E w \in 1..Len(pw) : FetchPartitions(w)
    \/ \E w \in 1..Len(pw) : ResolvePartitionOffset(w)
    \/ \E w \in 1..Len(pw) : ConsumePartition(w)
    \/ \E w \in 1..Len(pw) : RegisterLockRead(w)
    \/ \E w \in 1..Len(pw) : RegisterWriteUnlock(w)
    \/ \E w \in 1..Len(pw) : CollectStream(w)
    \/ PartitionsJoined
    \/ CloseAllNext
    \/ ClosePartitionConsumer
    \/ CloseConsumer
    \/ CloseClient
    \/ CloseAllReturn

Spec == Init /\ [][Next]_vars

(***************************************************************************)
(* closeAll on its own, from the states in which setupPartitionConsumers   *)
(* enters it.  At line 130 (a cluster open failed) no partition-consumer   *)
(* is registered and some consumer is unset; at line 197 (the partition    *)
(* phase failed) every handle is open and each cluster holds the           *)
(* partition-consumers registered with it.  closeAll reads the clusters    *)
(* and nothing else of the caller's state.                                 *)
(***************************************************************************)
CloseKeys == {BrokerKey(l) : l \in BootBrokerLists}
KeyWorker(k) == IF k = "a" THEN 1 ELSE 2
Registered(k, n) == [j \in 1..n |-> <<KeyWorker(k), j - 1>>]
Handles == {[client |-> "open", consumer |-> "open"],
            [client |-> "open", consumer |-> "unset"],
            [client |-> "unset", consumer |-> "unset"]}
ClustersAtLine130(K) ==
    {f \in [K -> [brokers : BootBrokerLists, client : {"open", "unset"},
                  consumer : {"open", "unset"}, partitionConsumers : {<<>>}]] :
        /\ \A k \in K : f[k].brokers = <<k>>
        /\ \A k \in K : [client |-> f[k].client, consumer |-> f[k].consumer] \in Handles
        /\ \E k \in K : f[k].consumer = "unset"}
ClustersAtLine197(K) ==
    {f \in [K -> [brokers : BootBrokerLists, client : {"open"}, consumer : {"open"},
                  partitionConsumers : UNION {{Registered(k, n) : n \in 0..MaxPartitions} : k \in K}]] :
        /\ \A k \in K : f[k].brokers = <<k>>
        /\ \A k \in K : \E n \in 0..MaxPartitions : f[k].partitionConsumers = Registered(k, n)}

InitClose ==
    /\ \E K \in (SUBSET CloseKeys) \ {{}} :
         clusters \in ClustersAtLine130(K) \cup ClustersAtLine197(K)
    /\ pc = "closeAll"
    /\ toClose = DOMAIN clusters
    /\ errors = <<Err("setup", "", 0, 0)>>
    /\ consumers = <<>>
    /\ cw = EmptyMap
    /\ pw = <<>>
    /\ pcLHeld = {}
    /\ partitionConsumerChans = <<>>
    /\ opened = {}
    /\ calls = {}
    /\ closing = <<>>
    /\ cstage = "pcs"
    /\ ci = 0
    /\ closeLog = <<>>
    /\ ret = NoReturn
    /\ OffsetIdle
    /\ RegistryIdle
    /\ DemuxIdle

NextClose ==
    \/ CloseAllNext
    \/ ClosePartitionConsumer
    \/ CloseConsumer
    \/ CloseClient
    \/ CloseAllReturn

SpecClose == InitClose /\ [][NextClose]_vars

(***************************************************************************)
(* The fan-in workers and the forwarding loop, step by step.               *)
(***************************************************************************)
\* line 266: case msg := <-p.  The receive takes the next message of the
\* input; on a closed input with nothing left it is ready at once and yields
\* nil, and the code does not look at the receive's second result.
DemuxRecv(i) ==
    /\ spc # "panic"
    /\ dpc[i] = "select"
    /\ p[i] # <<>> \/ i \in pClosed
    /\ msg' = [msg EXCEPT ![i] = IF p[i] # <<>> THEN Head(p[i]) ELSE NilMsg]
    /\ p' = [p EXCEPT ![i] = IF p[i] # <<>> THEN Tail(p[i]) ELSE <<>>]
    /\ dpc' = [dpc EXCEPT ![i] = "send"]
    /\ UNCHANGED <<produced, pClosed, qClosed, spc, cMsg, sends, offsetVars, registryVars, bootVars>>

\* lines 268-269: case <-q: return
DemuxQuit(i) ==
    /\ spc # "panic"
    /\ dpc[i] = "select"
    /\ qClosed
    /\ dpc' = [dpc EXCEPT ![i] = "exited"]
    /\ UNCHANGED <<produced, pClosed, p, msg, qClosed, spc, cMsg, sends, offsetVars, registryVars, bootVars>>

HandoffMutNonBlocking(i) ==
    /\ dpc[i] = "send"
    /\ IF spc = "select"
       THEN cMsg' = msg[i] /\ spc' = "send"
       ELSE UNCHANGED <<cMsg, spc>>
    /\ msg' = [msg EXCEPT ![i] = NoMsg]
    /\ dpc' = [dpc EXCEPT ![i] = "select"]
    /\ UNCHANGED <<produced, pClosed, p, qClosed, sends, offsetVars, registryVars, bootVars>>

\* line 267, c <- msg, meeting line 300, case cMsg := <-c
Handoff(i) ==
    /\ dpc[i] = "send"
    /\ spc = "select"
    /\ cMsg' = msg[i]
    /\ spc' = "send"
    /\ msg' = [msg EXCEPT ![i] = NoMsg]
    /\ dpc' = [dpc EXCEPT ![i] = "select"]
    /\ UNCHANGED <<produced, pClosed, p, qClosed, sends, offsetVars, registryVars, bootVars>>

SinkSendMutContinue ==
    /\ spc = "send"
    /\ IF cMsg = NilMsg
       THEN /\ spc' = "panic"
            /\ UNCHANGED <<sends, cMsg>>
       ELSE /\ \E err \in BOOLEAN :
                 /\ sends' = Append(sends, [msg |-> cMsg, err |-> err])
                 /\ spc' = "select"
            /\ cMsg' = NoMsg
    /\ UNCHANGED <<produced, pClosed, p, dpc, msg, qClosed, offsetVars, registryVars, bootVars>>

\* lines 301-314: format the message, sender.Send, return on its error.
\* Formatting reads cMsg.Topic (line 302): on a nil message that is a nil
\* dereference, and the process panics.
SinkSend ==
    /\ spc = "send"
    /\ IF cMsg = NilMsg
       THEN /\ spc' = "panic"
            /\ UNCHANGED <<sends, cMsg>>
       ELSE /\ \E err \in BOOLEAN :
                 /\ sends' = Append(sends, [msg |-> cMsg, err |-> err])
                 /\ spc' = IF err THEN "returned" ELSE "select"
            /\ cMsg' = NoMsg
    /\ UNCHANGED <<produced, pClosed, p, dpc, msg, qClosed, offsetVars, registryVars, bootVars>>

LoopQuitMutBreak ==
    /\ spc = "select"
    /\ qClosed
    /\ UNCHANGED vars

\* lines 315-317: case <-q: return
LoopQuit ==
    /\ spc = "select"
    /\ qClosed
    /\ spc' = "returned"
    /\ UNCHANGED <<produced, pClosed, p, dpc, msg, qClosed, cMsg, sends, offsetVars, registryVars, bootVars>>

\* the cancellation signal fires: q is closed, a broadcast to every receiver
Cancel ==
    /\ spc # "idle"
    /\ ~qClosed
    /\ qClosed' = TRUE
    /\ UNCHANGED <<produced, pClosed, p, dpc, msg, spc, cMsg, sends, offsetVars, registryVars, bootVars>>

\* an input stream is closed: its partition-consumer was closed (pc.Close,
\* as cluster.close does at line 36), which closes the channel Messages()
\* returned at line 182
CloseStream(i) ==
    /\ spc \notin {"idle", "panic"}
    /\ i \notin pClosed
    /\ pClosed' = pClosed \cup {i}
    /\ UNCHANGED <<produced, p, dpc, msg, qClosed, spc, cMsg, sends,
                   offsetVars, registryVars, bootVars>>

StreamMessages(i, n) == [k \in 1..n |-> <<i, k>>]

InitDemux ==
    /\ \E len \in [Streams -> 0..MaxMsgs] :
         produced = [i \in Streams |-> StreamMessages(i, len[i])]
    /\ p = produced
    /\ pClosed = {}
    /\ dpc = [i \in Streams |-> "select"]
    /\ msg = [i \in Streams |-> NoMsg]
    /\ qClosed = FALSE
    /\ spc = "select"
    /\ cMsg = NoMsg
    /\ sends = <<>>
    /\ OffsetIdle
    /\ RegistryIdle
    /\ BootIdle

NextDemux ==
    \/ \E i \in Streams : DemuxRecv(i)
    \/ \E i \in Streams : DemuxQuit(i)
    \/ \E i \in Streams : Handoff(i)
    \/ SinkSend
    \/ LoopQuit
    \/ Cancel

SpecDemux == InitDemux /\ [][NextDemux]_vars

\* the same with input streams that may be closed while the workers run
NextDemuxClose ==
    \/ NextDemux
    \/ \E i \in Streams : CloseStream(i)

SpecDemuxClose == InitDemux /\ [][NextDemuxClose]_vars

\* The forwarding loop under the scheduling Go gives it: the sink's Send
\* returns, and select draws uniformly among its ready cases, so a case that
\* is ready again and again is taken in the end.
FairDemux ==
    /\ SpecDemux
    /\ WF_vars(SinkSend)
    /\ SF_vars(LoopQuit)

\* The fan-in workers under the same scheduling: a worker's select takes the
\* <-q case in the end when it is ready again and again, and the unbuffered
\* send of line 267 completes in the end when the loop keeps coming back to
\* its receive.
FairWorkers ==
    /\ FairDemux
    /\ \A i \in Streams : SF_vars(DemuxQuit(i))
    /\ \A i \in Streams : SF_vars(Handoff(i))

InitOffset ==
    /\ configOffset \in Specifiers
    /\ roPc = "call"
    /\ roOldest = NoAnswer
    /\ roNewest = NoAnswer
    /\ roRet = NoRet
    /\ RegistryIdle
    /\ DemuxIdle
    /\ BootIdle

SpecOffset == InitOffset /\ [][ResolveCall]_vars

InitRegistry ==
    /\ regConsumers \in UNION {[1..n -> BrokerLists] : n \in 0..MaxRegSpecs}
    /\ regIdx = 1
    /\ regClusters = EmptyMap
    /\ OffsetIdle
    /\ DemuxIdle
    /\ BootIdle

SpecRegistry == InitRegistry /\ [][RegistryStep]_vars
(***************************************************************************)
(* What the claims speak of: the integer literals, read off the string     *)
(* without the parser.                                                     *)
(***************************************************************************)
Unsigned(s) == IF s # <<>> /\ Head(s) \in {"+", "-"} THEN Tail(s) ELSE s
IsIntLiteral(s) ==
    /\ Unsigned(s) # <<>>
    /\ \A i \in 1..Len(Unsigned(s)) : Unsigned(s)[i] \in Digits
LitValue(s) ==
    IF Head(s) = "-" THEN -DigitsValue(Unsigned(s), 0) ELSE DigitsValue(Unsigned(s), 0)
NoQueryFailed == ~(roOldest.asked /\ roOldest.err) /\ ~(roNewest.asked /\ roNewest.err)
LookbackResult ==
    /\ roRet.err = "nil"
    /\ roOldest.asked /\ roNewest.asked
    /\ roRet.offset = IF roNewest.val + LitValue(configOffset) < roOldest.val
                      THEN roOldest.val
                      ELSE roNewest.val + LitValue(configOffset)
RegDone == regIdx > Len(regConsumers) /\ regIdx >= 1
RegLists == {regConsumers[i] : i \in 1..Len(regConsumers)}
FirstWithKey(k) ==
    CHOOSE i \in 1..Len(regConsumers) :
        /\ Join(regConsumers[i], ",") = k
        /\ \A j \in 1..(i - 1) : Join(regConsumers[j], ",") # k

\* C7 as stated: once the registry is built, it holds exactly one cluster per
\* distinct ordered broker list; specs share a cluster exactly when their
\* broker lists are identical.
C7_Original ==
    RegDone =>
        /\ Cardinality(DOMAIN regClusters) = Cardinality(RegLists)
        /\ \A i, j \in 1..Len(regConsumers) :
             (regConsumers[i] = regConsumers[j])
                <=> (BrokerKey(regConsumers[i]) = BrokerKey(regConsumers[j]))

\* C7 amended: once the registry is built, it holds exactly one cluster per
\* distinct comma-joined key of the configured broker lists, every spec finds
\* its cluster under its key, each cluster carries the broker list of the
\* first spec with that key, and specs with identical lists share a cluster.
C7_RegistryPerJoinedKey ==
    RegDone =>
        /\ DOMAIN regClusters = {Join(l, ",") : l \in RegLists}
        /\ \A i \in 1..Len(regConsumers) : BrokerKey(regConsumers[i]) \in DOMAIN regClusters
        /\ \A k \in DOMAIN regClusters : regClusters[k] = regConsumers[FirstWithKey(k)]
        /\ \A i, j \in 1..Len(regConsumers) :
             regConsumers[i] = regConsumers[j]
                => BrokerKey(regConsumers[i]) = BrokerKey(regConsumers[j])

\* C7 witness: three specs, the first two with the same two-address list, the
\* third with the same addresses in the other order: two clusters.
C7_Witness ==
    /\ RegDone
    /\ regConsumers = <<(<<"a", "b">>), (<<"a", "b">>), (<<"b", "a">>)>>
    /\ Cardinality(DOMAIN regClusters) = 2

\* C8 as stated: for every integer literal n < -2 with no failed query, the
\* call returns O when N + n < O and N + n otherwise, with no error.
C8_Original ==
    (/\ roPc = "returned"
     /\ IsIntLiteral(configOffset)
     /\ LitValue(configOffset) < SentinelFloor
     /\ NoQueryFailed) => LookbackResult

\* C8 amended: the same for every integer literal n < -2 that fits the
\* integer type (n >= MinInt), with non-negative broker offsets.
C8_LookbackClamp ==
    (/\ roPc = "returned"
     /\ IsIntLiteral(configOffset)
     /\ LitValue(configOffset) < SentinelFloor
     /\ LitValue(configOffset) >= MinInt
     /\ NoQueryFailed) => LookbackResult

\* C8 witness: newest 100, oldest 10, "-95" clamps to 10.
C8_Witness ==
    /\ roPc = "returned"
    /\ configOffset = <<"-", "9", "5">>
    /\ roNewest = [val |-> 100, err |-> FALSE, asked |-> TRUE]
    /\ roOldest = [val |-> 10, err |-> FALSE, asked |-> TRUE]
    /\ roRet = [offset |-> 10, err |-> "nil", queries |-> 2]

Passthrough(v) == roRet = [offset |-> v, err |-> "nil", queries |-> 0] /\ ~roOldest.asked /\ ~roNewest.asked

\* C9 as stated: "oldest" and "newest" give the sentinels and every integer
\* literal n >= -2 is returned verbatim, with no error and no broker query.
C9_Original ==
    roPc = "returned" =>
        /\ configOffset = StrOldest => Passthrough(OffsetOldest)
        /\ configOffset = StrNewest => Passthrough(OffsetNewest)
        /\ (IsIntLiteral(configOffset) /\ LitValue(configOffset) >= SentinelFloor)
              => Passthrough(LitValue(configOffset))

\* C9 amended: the same for every integer literal n >= -2 that fits the
\* integer type (n <= MaxInt).
C9_SentinelPassthrough ==
    roPc = "returned" =>
        /\ configOffset = StrOldest => Passthrough(OffsetOldest)
        /\ configOffset = StrNewest => Passthrough(OffsetNewest)
        /\ (/\ IsIntLiteral(configOffset)
            /\ LitValue(configOffset) >= SentinelFloor
            /\ LitValue(configOffset) <= MaxInt)
              => Passthrough(LitValue(configOffset))

\* C9 witness: "-2" came back as -2 without a query.
C9_Witness ==
    /\ roPc = "returned"
    /\ configOffset = <<"-", "2">>
    /\ Passthrough(-2)

\* C10: a specifier that is neither "oldest" nor "newest" nor a signed integer
\* literal fails with the invalid-specifier error, and no broker query is made.
C10_InvalidSpecifier ==
    (/\ roPc = "returned"
     /\ configOffset \notin {StrOldest, StrNewest}
     /\ ~IsIntLiteral(configOffset))
       => /\ roRet.err = "invalid"
          /\ roRet.queries = 0
          /\ ~roOldest.asked /\ ~roNewest.asked

\* C10 witness: "abc" was rejected.
C10_Witness ==
    /\ roPc = "returned"
    /\ configOffset = StrAbc
    /\ roRet.err = "invalid"
    /\ roRet.queries = 0
\* the merged stream so far: every message the reader took from c, in order
Received ==
    [k \in 1..Len(sends) |-> sends[k].msg] \o (IF spc = "send" THEN <<cMsg>> ELSE <<>>)
RECURSIVE OfStream(_, _)
OfStream(seq, i) ==
    IF seq = <<>> THEN <<>>
    ELSE IF Head(seq)[1] = i THEN <<Head(seq)>> \o OfStream(Tail(seq), i)
    ELSE OfStream(Tail(seq), i)
InHand(i) == IF dpc[i] = "send" THEN <<msg[i]>> ELSE <<>>
DemuxRunning == spc \in {"select", "send", "returned"}
ReturnedOnQuit == spc = "returned" /\ (sends = <<>> \/ ~sends[Len(sends)].err)

\* C3: with no cancellation, the messages of each input that the merged
\* stream holds, then the one its worker holds, then those still on the
\* input, are exactly the sequence the input produced: nothing is dropped,
\* duplicated or reordered within an input; once every input is drained and
\* no worker holds a message, the merged stream holds every message.
C3_FanInComplete ==
    (DemuxRunning /\ ~qClosed) =>
        /\ \A i \in Streams :
             OfStream(Received, i) \o InHand(i) \o p[i] = produced[i]
        /\ \A k \in 1..Len(Received) : Received[k][1] \in Streams
        /\ (\A i \in Streams : p[i] = <<>> /\ dpc[i] = "select")
              => \A i \in Streams : OfStream(Received, i) = produced[i]

\* C3 witness: two inputs of two messages each, all four merged with the
\* inputs interleaved, no cancellation.
C3_Witness ==
    /\ DemuxRunning /\ ~qClosed
    /\ \A i \in Streams : Len(produced[i]) = 2 /\ p[i] = <<>> /\ dpc[i] = "select"
    /\ Len(Received) = 2 * NumStreams
    /\ Received[1][1] # Received[2][1]
    /\ spc = "select"

\* C4 as stated: once q has fired, no step puts a further message on the
\* merged stream.
C4_Original == [][qClosed => Received' = Received]_vars

\* C5: once q has fired, the forwarding loop eventually returns.
C5_LoopReturns == qClosed ~> (spc = "returned")

\* C5 witness: the loop returned on the quit signal while an input stream
\* still had messages and a worker was holding one for the merged stream.
C5_Witness ==
    /\ qClosed
    /\ ReturnedOnQuit
    /\ \E i \in Streams : p[i] # <<>>
    /\ \E i \in Streams : dpc[i] = "send"
CloseCount(kind, k, id) ==
    Cardinality({j \in 1..Len(closeLog) :
        closeLog[j].kind = kind /\ closeLog[j].cluster = k /\ closeLog[j].id = id})
\* the function is over: it returned, or the process died
Ended == pc \in {"returned", "panic"}
\* setupClusters came back with at least one error
ClusterPhaseFailed ==
    /\ pc \in {"closeAll", "returned", "panic"}
    /\ pw = <<>>
    /\ errors # <<>>
    /\ \A k \in DOMAIN cw : cw[k].pc = "done"
\* the spec-workers were started and the function reported failure
PartitionPhaseFailed == pc = "returned" /\ ~ret.ok /\ pw # <<>>
ReturnedNotReady == pc = "returned" /\ ret = [ok |-> FALSE, streams |-> <<>>, clusters |-> {}]
CloseAllEntered ==
    \/ pc = "closeAll"
    \/ pc = "returned" /\ ~ret.ok
    \/ pc = "panic" /\ closing # <<>>
Visited(k) == CloseAllEntered /\ k \notin toClose /\ closing # <<k>>
PcsAttempted(k, n) ==
    \A j \in 1..n : CloseCount("pc", k, clusters[k].partitionConsumers[j]) >= 1

\* C1 as stated: when a cluster open failed, the function ends by returning
\* not-ready, and by then every cluster whose client and consumer both opened
\* had its consumer and its client closed exactly once.
C1_Original ==
    (ClusterPhaseFailed /\ Ended) =>
        /\ ReturnedNotReady
        /\ \A k \in DOMAIN cw :
             (cw[k].client = "open" /\ cw[k].consumer = "open")
                => /\ CloseCount("consumer", k, NoPC) = 1
                   /\ CloseCount("client", k, NoPC) = 1

\* C2 as stated: when the partition phase failed, the function returns no
\* stream, and by then every partition-consumer that was opened has been
\* closed, and every cluster's consumer and client have been closed.
C2_Original ==
    PartitionPhaseFailed =>
        /\ ReturnedNotReady
        /\ \A id \in opened : CloseCount("pc", ClusterOf(id[1]), id) >= 1
        /\ \A k \in DOMAIN clusters :
             /\ CloseCount("consumer", k, NoPC) >= 1
             /\ CloseCount("client", k, NoPC) >= 1

\* C6: whatever the Close calls return, cluster.close goes through every
\* registered partition-consumer, then the consumer, then the client, and
\* closeAll returns only after it has visited every cluster: a cluster that
\* closeAll is past has had all of these attempted.
C6_CloseContinues ==
    /\ (closing # <<>> /\ cstage = "pcs")
          => PcsAttempted(closing[1], ci - 1)
    /\ (closing # <<>> /\ cstage = "client")
          => /\ PcsAttempted(closing[1], Len(clusters[closing[1]].partitionConsumers))
             /\ CloseCount("consumer", closing[1], NoPC) >= 1
    /\ \A k \in DOMAIN clusters :
         Visited(k) => /\ PcsAttempted(k, Len(clusters[k].partitionConsumers))
                       /\ CloseCount("consumer", k, NoPC) >= 1
                       /\ CloseCount("client", k, NoPC) >= 1
    /\ (pc = "returned" /\ ~ret.ok) => \A k \in DOMAIN clusters : Visited(k)

\* C6 witness: a partition-consumer's Close failed, then another
\* partition-consumer of the same cluster was closed, then its consumer, whose
\* Close failed too, then its client, then another cluster, and closeAll
\* returned.
C6_Witness ==
    /\ pc = "returned" /\ ~ret.ok
    /\ \E i, j, l, m, n \in 1..Len(closeLog) :
         /\ i < j /\ j < l /\ l < m /\ m < n
         /\ closeLog[i].kind = "pc" /\ closeLog[i].err
         /\ closeLog[j].kind = "pc" /\ closeLog[j].cluster = closeLog[i].cluster
         /\ closeLog[l].kind = "consumer" /\ closeLog[l].err
         /\ closeLog[l].cluster = closeLog[i].cluster
         /\ closeLog[m].kind = "client" /\ closeLog[m].cluster = closeLog[i].cluster
         /\ closeLog[n].cluster # closeLog[i].cluster

\* the spec-workers that are inside line 179's append: past its read of the
\* cluster's list, before its write
InAppend == {w \in 1..Len(pw) : pw[w].pc = "append"}

\* C11 as stated: no two spec-workers that target the same cluster are inside
\* the append to that cluster's partitionConsumers list at the same time.
C11_Original ==
    \A w1, w2 \in InAppend : w1 # w2 => ClusterOf(w1) # ClusterOf(w2)

\* the clusters whose setupClusters goroutine has finished
ClusterWorkersDone == {k \in DOMAIN cw : cw[k].pc = "done"}

\* C12 as stated: once a cluster's bootstrap worker has finished, the
\* cluster's client and consumer are both unset or both set.
C12_Original ==
    \A k \in ClusterWorkersDone :
        (clusters[k].client = "unset") <=> (clusters[k].consumer = "unset")

AllWorkersExited == \A i \in Streams : dpc[i] = "exited"

\* C13 as stated: once q has fired, every demuxMessages worker eventually
\* exits, whatever it was doing when q fired and also when the forwarding
\* loop has already returned.
C13_Original == qClosed ~> AllWorkersExited

\* worker w's offset resolution fails in this step while target partitions of
\* its spec remain after the current one
OffsetFailsBeforeLast(w) ==
    /\ pw[w].pc = "resolve"
    /\ pw'[w] # pw[w]
    /\ Len(errors') = Len(errors) + 1
    /\ errors'[Len(errors')].kind = "offset"
    /\ pw[w].idx < Len(pw[w].partitions)

\* C14 as stated: when offset resolution fails for one target partition of a
\* spec, the error is recorded and the spec's worker goes on to the next
\* target partition of that spec.
C14_Original ==
    [][\A w \in 1..Len(pw) :
          OffsetFailsBeforeLast(w)
             => /\ pw'[w].pc = "resolve"
                /\ pw'[w].partitions = pw[w].partitions
                /\ pw'[w].idx = pw[w].idx + 1]_vars

QueriesIssued == (IF roOldest.asked THEN 1 ELSE 0) + (IF roNewest.asked THEN 1 ELSE 0)
IsLookbackLiteral(s) ==
    IsIntLiteral(s) /\ LitValue(s) < SentinelFloor /\ LitValue(s) >= MinInt

\* C15 as stated: every call issues zero or exactly two GetOffset queries,
\* whatever the specifier and the outcome of each query, and issues any only
\* when the specifier is an integer literal below -2.
C15_Original ==
    roPc = "returned" =>
        /\ QueriesIssued \in {0, 2}
        /\ QueriesIssued > 0
              => IsIntLiteral(configOffset) /\ LitValue(configOffset) < SentinelFloor

\* C15 amended: every call issues zero, one or two GetOffset queries; it
\* issues any exactly when the specifier is an integer literal below -2 that
\* fits the integer type; the oldest-offset query comes first; the call
\* issues exactly one query when that first query fails (and then returns the
\* broker error) and exactly two when it succeeds.
C15_QueryCount ==
    roPc = "returned" =>
        /\ QueriesIssued \in {0, 1, 2}
        /\ roRet.queries = QueriesIssued
        /\ QueriesIssued > 0 <=> IsLookbackLiteral(configOffset)
        /\ roNewest.asked => roOldest.asked
        /\ QueriesIssued = 1 <=> (roOldest.asked /\ roOldest.err)
        /\ QueriesIssued = 2 <=> (roOldest.asked /\ ~roOldest.err)
        /\ (roOldest.asked /\ roOldest.err) => roRet.err = "broker"

\* C15 witness: "-5" with a failing oldest-offset query: one query, the
\* broker error returned, the newest offset never asked for.
C15_Witness ==
    /\ roPc = "returned"
    /\ configOffset = <<"-", "5">>
    /\ roOldest.asked /\ roOldest.err
    /\ ~roNewest.asked
    /\ roRet = [offset |-> 0, err |-> "broker", queries |-> 1]

\* the loop takes a message from the merged stream: no Send yet
LoopTakes ==
    /\ spc = "select" /\ spc' = "send"
    /\ \E i \in Streams : dpc[i] = "send" /\ cMsg' = msg[i]
    /\ sends' = sends
\* the loop makes the Send call for the message it took, and returns if the
\* call failed
LoopSends ==
    /\ spc = "send"
    /\ \E err \in BOOLEAN :
         /\ sends' = Append(sends, [msg |-> cMsg, err |-> err])
         /\ spc' = IF err THEN "returned" ELSE "select"
\* the loop returns on the quit signal
LoopLeaves == spc = "select" /\ spc' = "returned" /\ sends' = sends
SendFailed == sends # <<>> /\ sends[Len(sends)].err

\* C16: every message the loop takes from the merged stream is followed by
\* exactly one Send call, for that message, before the loop takes another, so
\* the Send calls are the messages taken, in the order taken; a failed Send is
\* the last one: the loop has returned and from then on takes no message and
\* makes no Send call.
C16_SendPerMessage ==
    /\ [](DemuxRunning =>
            /\ \A k \in 1..Len(sends) : sends[k].err => k = Len(sends)
            /\ SendFailed => spc = "returned"
            /\ spc = "send" <=> cMsg # NoMsg)
    /\ [][\/ UNCHANGED <<spc, cMsg, sends>>
          \/ LoopTakes
          \/ LoopSends
          \/ LoopLeaves]_vars
    /\ [][SendFailed => UNCHANGED <<spc, cMsg, sends>>]_vars

\* C16 witness: the loop forwarded one message, the Send of the second one
\* failed, and the loop returned while a worker was offering a third message
\* and an input still held one.
C16_Witness ==
    /\ spc = "returned"
    /\ Len(sends) = 2
    /\ ~sends[1].err /\ sends[2].err
    /\ sends[1].msg # sends[2].msg
    /\ \E i \in Streams : dpc[i] = "send"
    /\ \E i \in Streams : p[i] # <<>>
    /\ ~qClosed

\* the Close calls made on cluster k's resources, in the order made
RECURSIVE LogOf(_, _)
LogOf(log, k) ==
    IF log = <<>> THEN <<>>
    ELSE IF Head(log).cluster = k THEN <<Head(log)>> \o LogOf(Tail(log), k)
    ELSE LogOf(Tail(log), k)
\* the Close calls of one complete cluster.close on cluster k, errors aside
CloseSequence(k) ==
    [j \in 1..Len(clusters[k].partitionConsumers) |->
        [kind |-> "pc", id |-> clusters[k].partitionConsumers[j]]]
      \o <<[kind |-> "consumer", id |-> NoPC], [kind |-> "client", id |-> NoPC]>>
CloseCalls(k) ==
    [j \in 1..Len(LogOf(closeLog, k)) |->
        [kind |-> LogOf(closeLog, k)[j].kind, id |-> LogOf(closeLog, k)[j].id]]
IsPrefix(a, b) == Len(a) <= Len(b) /\ \A j \in 1..Len(a) : a[j] = b[j]

FailedOpens ==
    {<<"client", k>> : k \in {x \in DOMAIN cw : cw[x].pc # "newClient" /\ cw[x].client = "unset"}}
      \cup {<<"consumer", k>> : k \in {x \in DOMAIN cw :
                                     cw[x].pc \in {"assign", "done"} /\ cw[x].consumer = "unset"}}
ErrorsOfKind(kinds) == {j \in 1..Len(errors) : errors[j].kind \in kinds}
\* a cluster worker, or a spec-worker, has not finished
ClusterWorkerRunning == \E k \in DOMAIN cw : cw[k].pc # "done"
SpecWorkerRunning == \E w \in 1..Len(pw) : pw[w].pc # "done"
\* spec-worker w gives up in this step: it was resolving or opening a
\* partition and is finished after the step
SpecWorkerFails(w) == pw[w].pc \in {"resolve", "consume"} /\ pw'[w].pc = "done"

\* C18 as stated: in both phases, while a worker has not finished the phase
\* is still running (no sibling's failure has stopped it, and no decision has
\* been taken); the error collection holds one entry for every failure that
\* occurred, entries are only ever appended, and ok=true is returned only
\* with no failure at all.
C18_Original ==
    /\ [](/\ ClusterWorkerRunning => pc = "setupClusters"
          /\ SpecWorkerRunning => pc = "partitions"
          /\ Cardinality(ErrorsOfKind({"client", "consumer"})) = Cardinality(FailedOpens)
          /\ ret.ok => errors = <<>> /\ FailedOpens = {})
    /\ [][/\ Len(errors') >= Len(errors)
          /\ \A j \in 1..Len(errors) : errors'[j] = errors[j]
          /\ \A w \in 1..Len(pw) :
               (Len(pw') = Len(pw) /\ SpecWorkerFails(w))
                  => /\ Len(errors') = Len(errors) + 1
                     /\ errors'[Len(errors')].worker = w]_vars

\* the clusters whose worker is at line 98, about to call
\* utils.newConsumerFromClient(client)
AtNewConsumer == {k \in DOMAIN cw : cw[k].pc = "newConsumer"}
\* the clusters whose worker is past line 98 after a failed client open
PastFailedClient ==
    {k \in DOMAIN cw : cw[k].pc \in {"assign", "done"} /\ cw[k].client = "unset"}
ErrorsOfCluster(k) == {j \in 1..Len(errors) : errors[j].cluster = k}

\* C19 as stated: newConsumerFromClient is never called with an unset
\* client, and a failed client open contributes exactly one error for that
\* cluster.
C19_Original ==
    /\ \A k \in AtNewConsumer : cw[k].client = "open"
    /\ \A k \in PastFailedClient : Cardinality(ErrorsOfCluster(k)) = 1

ProducedBy(i) == {produced[i][k] : k \in 1..Len(produced[i])}

\* C20 as stated: every value a worker puts on the merged stream is a message
\* its input stream produced, also after the input was closed, so the
\* forwarding loop never receives a nil message to format.
C20_Original ==
    /\ \A i \in DOMAIN dpc : dpc[i] = "send" => msg[i] \in ProducedBy(i)
    /\ spc = "send" => \E i \in Streams : cMsg \in ProducedBy(i)
    /\ spc # "panic"
=============================================================================
